---- MODULE Spec2Model ----
(***************************************************************************)
(* State-machine model of the DAG workflow executor: the DAG, the          *)
(* Semaphore, the Task retry loop, the Workflow scheduler (#process and    *)
(* #run), the lifecycle controls and the async iterators.                  *)
(*                                                                         *)
(* One action is one synchronous run of JavaScript between two awaits.     *)
(***************************************************************************)
EXTENDS Integers, Sequences, FiniteSets, TLC

(***************************************************************************)
(* Bounds of the model.                                                    *)
(***************************************************************************)
MaxRetryLimit == 2
MaxRemoves == 1
MaxPauses == 1
MaxDeps == 1

TaskIds == {"a", "b", "c", "d"}
\* an id that names no task of the workflow
Unknown == "x"
Iters == {1, 2}

Range(s) == {s[i] : i \in 1..Len(s)}

RECURSIVE Pow2(_)
\* 2 ** n, as used by Task.execute for the backoff
Pow2(n) == IF n = 0 THEN 1 ELSE 2 * Pow2(n - 1)

(***************************************************************************)
(* DAG.  V is the Map of vertices as the sequence of its keys in insertion *)
(* order, E maps a vertex id to its edge Set as a sequence in insertion    *)
(* order (the ids the vertex depends on; an id may name no vertex).        *)
(***************************************************************************)
SeqRemove(s, x) == SelectSeq(s, LAMBDA y : y # x)

RECURSIVE InsertByPrio(_, _, _)
\* insert x after every element whose priority is >= its own (stable)
InsertByPrio(s, x, prio) ==
    IF s = <<>> THEN <<x>>
    ELSE IF prio[Head(s)] >= prio[x] THEN <<Head(s)>> \o InsertByPrio(Tail(s), x, prio)
    ELSE <<x>> \o s

SortByPrioMutant(s, prio) == s
RECURSIVE SortByPrio(_, _)
\* Array.prototype.sort((a, b) => b.payload.priority - a.payload.priority): stable
SortByPrio(s, prio) ==
    IF s = <<>> THEN <<>>
    ELSE InsertByPrio(SortByPrio(SubSeq(s, 1, Len(s) - 1), prio), s[Len(s)], prio)

\* getEdges(id) then edges.sort(comparator): undefined entries (ids that name
\* no vertex) are moved to the end by Array.prototype.sort
SortedEdges(V, E, id, prio) ==
    SortByPrio(SelectSeq(E[id], LAMBDA d : d \in Range(V)), prio)
        \o SelectSeq(E[id], LAMBDA d : d \notin Range(V))

RECURSIVE dfsFrom(_, _, _, _, _, _)
RECURSIVE dfsEdges(_, _, _, _, _)
\* #dfsFrom: post-order DFS; acc is [out |-> yielded ids, visited |-> set]
dfsFrom(V, E, prio, id, acc, top) ==
    IF id \in acc.visited \/ id \notin Range(V) THEN acc
    ELSE LET edges == IF top THEN SortedEdges(V, E, id, prio) ELSE E[id]
             sub == dfsEdges(V, E, prio, edges,
                             [acc EXCEPT !.visited = acc.visited \cup {id}])
         IN  [sub EXCEPT !.out = Append(sub.out, id)]

dfsEdges(V, E, prio, edges, acc) ==
    IF edges = <<>> THEN acc
    ELSE dfsEdges(V, E, prio, Tail(edges),
                  dfsFrom(V, E, prio, Head(edges), acc, FALSE))

RECURSIVE topoLoop(_, _, _, _, _)
topoLoop(V, E, prio, vs, acc) ==
    IF vs = <<>> THEN acc
    ELSE topoLoop(V, E, prio, Tail(vs),
                  IF Head(vs) \in acc.visited THEN acc
                  ELSE dfsFrom(V, E, prio, Head(vs), acc, TRUE))

topoSortMutant(V, E, prio) == SortByPrio(V, prio)
\* topoSort(comparator): the ids of the payloads returned
topoSort(V, E, prio) ==
    topoLoop(V, E, prio, SortByPrio(V, prio), [out |-> <<>>, visited |-> {}]).out

\* the entry that vertex.edges.add(e?.id) leaves in an edge Set for an edge
\* whose id names no vertex
Undefined == "undefined"

RECURSIVE topoTops(_, _, _, _, _, _)
\* the vertices topoSort's loop hands to #dfsFrom together with the comparator
topoTops(V, E, prio, vs, acc, tops) ==
    IF vs = <<>> THEN tops
    ELSE IF Head(vs) \in acc.visited THEN topoTops(V, E, prio, Tail(vs), acc, tops)
    ELSE topoTops(V, E, prio, Tail(vs), dfsFrom(V, E, prio, Head(vs), acc, TRUE),
                  tops \cup {Head(vs)})

\* the edge Sets after topoSort(comparator): #dfsFrom clears the Set of each
\* vertex it is given the comparator for and refills it from the sorted
\* Vertex objects, every absent one adding undefined
topoSortE(V, E, prio) ==
    LET tops == topoTops(V, E, prio, SortByPrio(V, prio), [out |-> <<>>, visited |-> {}], {})
    IN  [v \in DOMAIN E |->
            IF v \in tops
            THEN SortByPrio(SelectSeq(E[v], LAMBDA d : d \in Range(V)), prio)
                     \o (IF \E d \in Range(E[v]) : d \notin Range(V)
                         THEN <<Undefined>> ELSE <<>>)
            ELSE E[v]]

\* getEdges(id) maps every edge id to the Vertex object stored under it, or
\* to undefined; getAllEdges yields these objects as the second component
VertexRef(V, d) == IF d \in Range(V) THEN <<"Vertex", d>> ELSE <<"undefined", "">>

\* removeVertex(id): removeEdge(fromId, toId) for every pair [fromId, toId] of
\* getAllEdges with toId === id, id being the id string passed in
removeVertexE(V, E, id) ==
    [v \in DOMAIN E |->
        IF v \in Range(V) /\ \E d \in Range(E[v]) : VertexRef(V, d) = <<"String", id>>
        THEN SeqRemove(E[v], id) ELSE E[v]]
removeVertexV(V, id) == SeqRemove(V, id)

(***************************************************************************)
(* Workloads: the tasks added to the workflow before it is consumed, in    *)
(* the order of the add calls, and how the workflow is consumed.           *)
(***************************************************************************)
NoDeps == [t \in TaskIds |-> <<>>]
NoRetry == [t \in TaskIds |-> 0]
NoPrio == [t \in TaskIds |-> 0]
NoTimeout == [t \in TaskIds |-> FALSE]

\* the filters of stream() and try() when the caller passes none: states and
\* onlyTerminal as given, accept the ids of the tasks filters.filter is true of
DefaultFilters == [states |-> {"succeeded"}, onlyTerminal |-> TRUE, accept |-> TaskIds]

\* a workload: ids in the order of the add calls, each task's config, the
\* workflow's maxConcurrent, how each iterator consumes ("none": not used) and
\* the controls the host may call during the run ("repeat": it may also call
\* pause, resume and abort when the workflow is in their target state already)
Workload(name, ids, rel, retry, maxc, kinds, ops) ==
    [name |-> name, ids |-> ids, rel |-> rel, retry |-> retry, prio |-> NoPrio,
     tmo |-> NoTimeout, backoff |-> [t \in TaskIds |-> 10], maxc |-> maxc,
     kinds |-> kinds, ops |-> ops, flt |-> DefaultFilters]

Chain == [NoDeps EXCEPT !["b"] = <<"a">>, !["c"] = <<"b">>]
Fork == [NoDeps EXCEPT !["b"] = <<"a">>, !["c"] = <<"a">>]
Diamond == [Fork EXCEPT !["d"] = <<"b", "c">>]

Workloads ==
    { Workload("chain", <<"a", "b", "c">>, Chain, [NoRetry EXCEPT !["a"] = r], 1,
               <<"default", "none">>, {"remove", "abort"}) : r \in 0..MaxRetryLimit }
    \cup
    { [Workload("fork", <<"a", "b", "c">>, Fork, [NoRetry EXCEPT !["a"] = 1], 2,
                <<"default", "none">>, {"pause", "abort", "repeat"})
          EXCEPT !.tmo = [NoTimeout EXCEPT !["b"] = TRUE]],
      [Workload("diamond", <<"d", "c", "b", "a">>, Diamond, NoRetry, 2,
                <<"default", "none">>, {"remove"})
          EXCEPT !.prio = [NoPrio EXCEPT !["c"] = 1]],
      Workload("forward", <<"a", "b">>, [NoDeps EXCEPT !["a"] = <<"b">>], NoRetry, 1,
               <<"default", "none">>, {}),
      Workload("unknown", <<"a", "b">>,
               [NoDeps EXCEPT !["a"] = <<Unknown>>, !["b"] = <<"a">>], NoRetry, 2,
               <<"default", "none">>, {}),
      Workload("self", <<"a", "b">>, [NoDeps EXCEPT !["a"] = <<"a">>], NoRetry, 2,
               <<"default", "none">>, {}),
      Workload("pair", <<"a", "b">>, NoDeps, NoRetry, 1,
               <<"try", "default">>, {}),
      Workload("twins", <<"a", "b">>, NoDeps, NoRetry, 1,
               <<"default", "stream">>, {}),
      [Workload("relay", <<"a", "b", "c">>, [NoDeps EXCEPT !["b"] = <<"a">>],
                [NoRetry EXCEPT !["c"] = 1], 2, <<"stream", "none">>, {})
          EXCEPT !.flt = [states |-> {"succeeded", "failed"}, onlyTerminal |-> FALSE,
                          accept |-> {"a", "b"}]],
      Workload("stray", <<"a", "b">>, [NoDeps EXCEPT !["a"] = <<Unknown>>], NoRetry, 1,
               <<"try", "none">>, {"remove"}),
      [Workload("trio", <<"a", "b", "c">>, NoDeps, [NoRetry EXCEPT !["b"] = 1], 2,
                <<"default", "none">>, {"pause", "abort"})
          EXCEPT !.tmo = [NoTimeout EXCEPT !["b"] = TRUE],
                 !.prio = [NoPrio EXCEPT !["c"] = 1]] }

(***************************************************************************)
(* State.                                                                  *)
(***************************************************************************)
VARIABLES
    wl,         \* the workload: Task configs, maxConcurrent, iterator kinds
    wfState,    \* Workflow.#fsm.state
    pauseGate,  \* Workflow.#pause is not null
    procPc,     \* position of #process: "idle", "begun" (awaiting checkPause), "done"
    dagV,       \* DAG.#vertices, keys in insertion order
    dagE,       \* Vertex.edges of every vertex
    toRemove,   \* Workflow.#toRemove
    processed,  \* keys of Workflow.#processed
    outcome,    \* state of the promise #run made for a task: pending, value, error
    tstate,     \* Task.#fsm.state
    attempts,   \* Task.#attempts
    result,     \* Task.#result
    error,      \* Task.#error
    fwd,        \* the wildcard handler forwarding the task's events to taskManager
    idMap,      \* taskManager.#idMap: "task" when the id maps to the machine of the
                \* task stored in the graph, "other" to another Task's machine
    pc,         \* position of the task's #run / execute / #attempt
    waits,      \* the dependency promises the task awaits in #run
    timer,      \* remaining delay of the task's Time.wait
    active,     \* Semaphore.#active
    queue,      \* Semaphore.#queue
    iters,      \* the async iterators consuming the workflow
    subOrder,   \* handlers subscribed to taskManager's signaller, in order
    starts,     \* history: number of start transitions of the task
    hist,       \* history: how each attempt's work ended
    waitLog,    \* history: the time waited before each retry
    rej,        \* history: the error the task's execute (or the withLock
                \* callback before it) rejected with
    removes,    \* number of Workflow.remove calls made
    pauses,     \* number of Workflow.pause calls made
    edits,      \* number of add and addEdge calls made on the built graph
    ctl,        \* history: the last control call that found its target state
    snap,       \* history: the task states around the abort transition
    fsm,        \* a StateMachine of its own, with observing handlers
    sem,        \* a Semaphore of its own, with its callers
    sig,        \* a Signaller of its own, with its subscribers and streams
    tk          \* a Task with a timeout whose execute runs on its own

wfVars == <<wfState, pauseGate, procPc, dagV, dagE, toRemove, processed>>
taskVars == <<tstate, attempts, result, error, fwd, idMap, pc, waits, timer, outcome>>
semVars == <<active, queue>>
iterVars == <<iters, subOrder>>
histVars == <<starts, hist, waitLog, rej>>
envVars == <<removes, pauses, edits>>
obsVars == <<ctl, snap>>
libVars == <<fsm, sem, sig, tk>>
vars == <<wl, wfVars, taskVars, semVars, iterVars, histVars, envVars, obsVars, libVars>>

NoError == <<"none", 0>>
Cancelled == <<"Task was cancelled!", 0>>
InvalidTransition == <<"Invalid state transition", 0>>
RemovedBeforeExecution == <<"was removed before execution", 0>>
TimedOut == <<"timed out after", 0>>
NotAFunction == <<"cb is not a function", 0>>
ControllerClosed == <<"Controller is already closed", 0>>
\* the error thrown by the work function on attempt number k
WorkError(k) == <<"work", k>>

NewIter(k) ==
    [kind |-> k, pc |-> "new", sub |-> "none", buf |-> <<>>, count |-> 0, olen |-> 0,
     cache |-> <<>>, pos |-> 1, thrown |-> NoError, cause |-> "", seen |-> {},
     dup |-> FALSE, early |-> FALSE, got |-> {}, out |-> {}, late |-> FALSE]

\* no abort transition has happened yet
NoSnap == [before |-> <<>>, after |-> <<>>, starts |-> <<>>]
\* the task states before and after the abort transition that leads to ts
Snapshot(ts) == [before |-> tstate, after |-> ts, starts |-> starts]

\* new StateMachine(stateDef, id, instance) for Task.stateDef or
\* Workflow.stateDef: the state is the initial state; log is what the handlers
\* of the last invoke observed, res how that invoke ended, n the invokes made,
\* last the transition last invoked and was the state it was invoked in
NewStateMachine(def) ==
    [def |-> def, state |-> IF def = "task" THEN "created" ELSE "idle",
     log |-> <<>>, res |-> "none", n |-> 0, last |-> "none", was |-> "none"]

SemClients == {1, 2, 3, 4}
\* new Semaphore(max), and where each caller of acquire / withLock stands
NewSemaphore(max) ==
    [max |-> max, active |-> 0, queue |-> <<>>, woken |-> <<>>,
     cl |-> [c \in SemClients |-> "out"]]

\* new Workflow(...) followed by the add calls of the workload
Constructed ==
    /\ wfState = "idle"
    /\ pauseGate = FALSE
    /\ procPc = "idle"
    /\ dagV = wl.ids
    /\ dagE = wl.rel
    /\ toRemove = {}
    /\ processed = {}
    /\ outcome = [t \in TaskIds |-> "pending"]
    /\ tstate = [t \in TaskIds |-> IF t \in Range(wl.ids) THEN "pending" ELSE "none"]
    /\ attempts = [t \in TaskIds |-> 0]
    /\ result = [t \in TaskIds |-> "undefined"]
    /\ error = [t \in TaskIds |-> NoError]
    /\ fwd = [t \in TaskIds |-> t \in Range(wl.ids)]
    /\ idMap = [t \in TaskIds |-> IF t \in Range(wl.ids) THEN "task" ELSE "none"]
    /\ pc = [t \in TaskIds |-> IF t \in Range(wl.ids) THEN "new" ELSE "none"]
    /\ waits = [t \in TaskIds |-> {}]
    /\ timer = [t \in TaskIds |-> 0]
    /\ active = 0
    /\ queue = <<>>
    /\ iters = [i \in Iters |-> NewIter(wl.kinds[i])]
    /\ subOrder = <<>>
    /\ starts = [t \in TaskIds |-> 0]
    /\ hist = [t \in TaskIds |-> <<>>]
    /\ waitLog = [t \in TaskIds |-> <<>>]
    /\ rej = [t \in TaskIds |-> NoError]
    /\ removes = 0
    /\ pauses = 0
    /\ edits = 0
    /\ ctl = <<"none", "none">>
    /\ snap = NoSnap

\* new Signaller("e1", "e2"): hs is #handlers, each Set as the sequence of
\* its subscribers in insertion order, wc is #wc; st holds the streams made
\* by stream(): state, buf (the values enqueued and not read), and as history
\* got (the values a consumer read), due (the values emitted on its events
\* since it was made) and cut (clear() removed its handler); last, arg, calls
\* and res record the last call, the subscribers it invoked and how it ended
SigEvents == {"e1", "e2"}
SigStreams == {1, 2}
NoStream == [state |-> "none", buf |-> <<>>, got |-> <<>>, due |-> <<>>, cut |-> FALSE]
NewSignaller ==
    [hs |-> [e \in SigEvents |-> <<>>], wc |-> <<>>,
     st |-> [i \in SigStreams |-> NoStream],
     last |-> "none", arg |-> "none", calls |-> <<>>, res |-> "none", n |-> 0]

\* a Task of src/workflow/Task.js after its constructor, execute not yet
\* called: timers holds the attempts whose timeout timer is armed, oldest
\* first, fired the attempts whose timer has elapsed, ret how execute ended
NewTask(retryLimit) ==
    [state |-> "pending", attempts |-> 0, retryLimit |-> retryLimit, pc |-> "new",
     timers |-> <<>>, fired |-> <<>>, error |-> NoError, result |-> "none",
     ret |-> "none"]

\* the stand-alone StateMachine, Semaphore, Signaller and Task are not in use
LibIdle ==
    /\ fsm = NewStateMachine("task")
    /\ sem = NewSemaphore(1)
    /\ sig = NewSignaller
    /\ tk = NewTask(0)

Init == wl \in Workloads /\ Constructed /\ LibIdle

(***************************************************************************)
(* Signaller / StateMachine / StateMachineManager.                         *)
(***************************************************************************)
\* the events Workflow[Symbol.asyncIterator] streams from taskManager
Streamed == {"succeeded", "cancelled", "failed", "removed"}

\* Task.stateDef.transitions
TaskFrom(tr) ==
    CASE tr = "start" -> {"pending"}
      [] tr = "cancel" -> {"pending"}
      [] tr = "succeed" -> {"running"}
      [] tr = "fail" -> {"running"}
      [] tr = "timeout" -> {"running"}
      [] tr = "retry" -> {"failed"}
      [] tr = "remove" -> {"created", "pending", "running", "succeeded", "failed",
                           "cancelled", "removed"}
TaskTo(tr) ==
    CASE tr = "start" -> "running"
      [] tr = "cancel" -> "cancelled"
      [] tr = "succeed" -> "succeeded"
      [] tr = "fail" -> "failed"
      [] tr = "timeout" -> "failed"
      [] tr = "retry" -> "pending"
      [] tr = "remove" -> "removed"

\* the context a handler receives; final records whether the task had retries
\* left when the event was emitted (history, not read by the program)
Ctx(t, to) == [task |-> t, to |-> to, final |-> (to # "failed" \/ attempts[t] >= wl.retry[t])]

RECURSIVE emit(_, _, _)
\* Signaller.emit on taskManager's signaller: the stream handlers run in
\* subscription order; controller.enqueue of a cancelled stream throws
emit(its, order, ctx) ==
    IF order = <<>> THEN [its |-> its, threw |-> FALSE]
    ELSE IF its[Head(order)].sub = "closed" THEN [its |-> its, threw |-> TRUE]
    ELSE emit([its EXCEPT ![Head(order)].buf =
                   IF its[Head(order)].sub = "open" THEN Append(@, ctx) ELSE @],
              Tail(order), ctx)

\* the after-handlers the Task constructor installs
TaskAfter(c, t, tr) ==
    CASE tr = "start" -> [c EXCEPT !.er[t] = NoError]
      [] tr = "cancel" -> [c EXCEPT !.er[t] = Cancelled]
      [] tr = "remove" -> [c EXCEPT !.fw[t] = IF c.im[t] = "task" THEN FALSE ELSE @,
                                    !.im[t] = "none"]
      [] OTHER -> c

\* StateMachine do[transition] of a task: c is [ts, er, fw, im, its]; res is "ok",
\* "invalid" (Invalid state transition thrown) or "threw" (a handler threw)
invoke(c, t, tr) ==
    IF c.ts[t] \notin TaskFrom(tr) THEN [c |-> c, res |-> "invalid"]
    ELSE LET to == TaskTo(tr)
             e == IF to \in Streamed /\ c.fw[t]
                  THEN emit(c.its, subOrder, Ctx(t, to))
                  ELSE [its |-> c.its, threw |-> FALSE]
             c1 == [c EXCEPT !.ts[t] = to, !.its = e.its]
         IN  IF e.threw THEN [c |-> c1, res |-> "threw"]
             ELSE [c |-> TaskAfter(c1, t, tr), res |-> "ok"]

Core == [ts |-> tstate, er |-> error, fw |-> fwd, im |-> idMap, its |-> iters]

SetCore(c) ==
    /\ tstate' = c.ts
    /\ error' = c.er
    /\ fwd' = c.fw
    /\ idMap' = c.im
    /\ iters' = c.its

(***************************************************************************)
(* Semaphore.                                                              *)
(***************************************************************************)
\* acquire(): the test made before the permit is taken synchronously
CanAcquireMutant(n, max) == TRUE
CanAcquire(n, max) == n < max

\* release() at the end of withLock, with the promise made by #run settling
\* to oc: the head waiter is resolved and resumes later
SettleMutant(t, oc) ==
    /\ outcome' = [outcome EXCEPT ![t] = oc]
    /\ active' = active
    /\ queue' = IF queue = <<>> THEN queue ELSE Tail(queue)
    /\ pc' = IF queue = <<>> THEN [pc EXCEPT ![t] = "settled"]
             ELSE [pc EXCEPT ![t] = "settled", ![Head(queue)] = "woken"]
Settle(t, oc) ==
    /\ outcome' = [outcome EXCEPT ![t] = oc]
    /\ active' = active - 1
    /\ queue' = IF queue = <<>> THEN queue ELSE Tail(queue)
    /\ pc' = IF queue = <<>> THEN [pc EXCEPT ![t] = "settled"]
             ELSE [pc EXCEPT ![t] = "settled", ![Head(queue)] = "woken"]

(***************************************************************************)
(* Workflow scheduler: #process and #run.                                  *)
(***************************************************************************)
getOrdered == topoSort(dagV, dagE, wl.prio)

\* the synchronous part of #run(id): memoized, else withLock -> acquire and
\* the promise stored in #processed.  s is [active, queue, pc, processed]
run(s, id) ==
    IF id \in s.processed THEN s
    ELSE IF CanAcquire(s.active, wl.maxc)
    THEN [s EXCEPT !.active = @ + 1, !.pc[id] = "locked", !.processed = @ \cup {id}]
    ELSE [s EXCEPT !.queue = Append(@, id), !.pc[id] = "queued",
                   !.processed = @ \cup {id}]

RECURSIVE runAll(_, _)
runAll(s, ids) ==
    IF ids = <<>> THEN s
    ELSE runAll(IF Head(ids) \in Range(dagV) THEN run(s, Head(ids)) ELSE s, Tail(ids))

\* #process after its await of checkPause: launch #run for every task of
\* getOrdered() that is not processed yet
ProcessLaunch ==
    /\ procPc = "begun"
    /\ LET s == runAll([active |-> active, queue |-> queue, pc |-> pc,
                        processed |-> processed], getOrdered)
       IN  /\ active' = s.active
           /\ queue' = s.queue
           /\ pc' = s.pc
           /\ processed' = s.processed
    /\ procPc' = "done"
    /\ UNCHANGED <<wl, wfState, pauseGate, dagV, dagE, toRemove, tstate, attempts, result,
                   error, fwd, idMap, waits, timer, outcome, iterVars, histVars, envVars, obsVars, libVars>>

\* the callback of withLock starts (after acquire resumed, which takes the
\* permit when the task was queued): task.reliesOn.map(did => this.#run(did))
RunDeps(t) ==
    /\ pc[t] \in {"locked", "woken"}
    /\ LET s0 == [active |-> IF pc[t] = "woken" THEN active + 1 ELSE active,
                  queue |-> queue, pc |-> [pc EXCEPT ![t] = "deps"],
                  processed |-> processed]
           s == runAll(s0, wl.rel[t])
       IN  /\ active' = s.active
           /\ queue' = s.queue
           /\ pc' = s.pc
           /\ processed' = s.processed
           /\ waits' = [waits EXCEPT ![t] =
                  {d \in Range(wl.rel[t]) : d \in s.processed}
                  \cup (IF \E d \in Range(wl.rel[t]) : d \notin s.processed
                        THEN {"rejected"} ELSE {})]
    /\ UNCHANGED <<wl, wfState, pauseGate, procPc, dagV, dagE, toRemove, tstate, attempts,
                   result, error, fwd, idMap, timer, outcome, iterVars, histVars, envVars, obsVars, libVars>>

\* Promise.allSettled over the dependency runs has settled
DepsSettledMutant(t) == TRUE
DepsSettled(t) == \A d \in waits[t] \ {"rejected"} : outcome[d] # "pending"

\* settled.some(s => Error.isError(s.value) || s.status === 'rejected')
DepFailedMutant(t) == FALSE
DepFailed(t) == "rejected" \in waits[t] \/ \E d \in waits[t] \ {"rejected"} : outcome[d] = "error"

\* the error an invoke that ended res raises: the machine's own for an
\* invalid transition, else the one a stream's handler threw
Thrown(res) == IF res = "invalid" THEN InvalidTransition ELSE ControllerClosed

\* checkPause() inside #attempt: suspend on the pause gate when there is one
AtGate == IF pauseGate THEN "gateWait" ELSE "ready"

\* the rest of the withLock callback: cancel on a failed dependency, then
\* task.execute up to the first checkPause
AwaitDeps(t) ==
    /\ pc[t] = "deps"
    /\ DepsSettled(t)
    /\ LET r == IF DepFailed(t) THEN invoke(Core, t, "cancel") ELSE [c |-> Core, res |-> "ok"]
       IN  /\ SetCore(r.c)
           /\ IF r.res # "ok" \/ r.c.ts[t] = "cancelled"
              THEN /\ Settle(t, "error")
                   /\ rej' = [rej EXCEPT ![t] = IF r.res = "ok" THEN r.c.er[t]
                                                ELSE Thrown(r.res)]
                   /\ UNCHANGED attempts
              ELSE /\ attempts' = [attempts EXCEPT ![t] = 0]
                   /\ pc' = [pc EXCEPT ![t] = AtGate]
                   /\ UNCHANGED <<outcome, active, queue, rej>>
    /\ UNCHANGED <<wl, wfVars, result, waits, timer, subOrder, starts, hist, waitLog, envVars,
                   obsVars, libVars>>

(***************************************************************************)
(* Task.execute and Task.#attempt.                                         *)
(***************************************************************************)
\* the delay of the Time.wait before the next attempt
BackoffDelayMutant(t) == wl.backoff[t]
BackoffDelay(t) == Pow2(attempts[t]) * wl.backoff[t]

\* the test that ends the retry loop in the catch block
LastAttempt(t) == attempts[t] = wl.retry[t]

\* the catch block of execute, entered with error e and the FSM in c: a throw
\* inside the block, and the throw that ends the loop, reject execute
Catch(t, c, e) ==
    LET c1 == [c EXCEPT !.er[t] = e]
        r == IF c1.ts[t] # "failed" THEN invoke(c1, t, "fail") ELSE [c |-> c1, res |-> "ok"]
    IN  IF r.res # "ok" \/ LastAttempt(t)
        THEN /\ SetCore(r.c)
             /\ Settle(t, "error")
             /\ rej' = [rej EXCEPT ![t] = IF r.res = "ok" THEN e ELSE Thrown(r.res)]
             /\ UNCHANGED <<timer, waitLog>>
        ELSE /\ SetCore(invoke(r.c, t, "retry").c)
             /\ pc' = [pc EXCEPT ![t] = "backoff"]
             /\ timer' = [timer EXCEPT ![t] = BackoffDelay(t)]
             /\ waitLog' = [waitLog EXCEPT ![t] = Append(@, 0)]
             /\ UNCHANGED <<outcome, active, queue, rej>>

\* #attempt after checkPause: the removed test and the start transition
Start(t) ==
    /\ pc[t] = "ready"
    /\ IF tstate[t] = "removed"
       THEN Catch(t, Core, RemovedBeforeExecution) /\ UNCHANGED starts
       ELSE LET r == invoke(Core, t, "start")
            IN  IF r.res = "ok"
                THEN /\ SetCore(r.c)
                     /\ pc' = [pc EXCEPT ![t] = "work"]
                     /\ starts' = [starts EXCEPT ![t] = @ + 1]
                     /\ UNCHANGED <<outcome, active, queue, timer, waitLog, rej>>
                ELSE Catch(t, r.c, InvalidTransition) /\ UNCHANGED starts
    /\ UNCHANGED <<wl, wfVars, attempts, result, waits, subOrder, hist, envVars, obsVars, libVars>>

\* the work's promise fulfils: store the result, transition succeed
WorkReturns(t) ==
    /\ pc[t] = "work"
    /\ ~wl.tmo[t]
    /\ result' = [result EXCEPT ![t] = "v"]
    /\ hist' = [hist EXCEPT ![t] = Append(@, "return")]
    /\ LET r == invoke(Core, t, "succeed")
       IN  IF r.res = "ok"
           THEN SetCore(r.c) /\ Settle(t, "value") /\ UNCHANGED <<timer, waitLog, rej>>
           ELSE Catch(t, r.c, IF r.res = "invalid" THEN InvalidTransition
                              ELSE ControllerClosed)
    /\ UNCHANGED <<wl, wfVars, attempts, waits, subOrder, starts, envVars, obsVars, libVars>>

\* the work's promise rejects
WorkThrows(t) ==
    /\ pc[t] = "work"
    /\ ~wl.tmo[t]
    /\ hist' = [hist EXCEPT ![t] = Append(@, "throw")]
    /\ Catch(t, Core, WorkError(attempts[t]))
    /\ UNCHANGED <<wl, wfVars, attempts, result, waits, subOrder, starts, envVars, obsVars, libVars>>

\* #attempt with a timeout configured: Time.timeout(work, ms, cb) calls its
\* first argument, here the value the work function returned, so the promise
\* the attempt awaits rejects with a TypeError whatever the work does (o)
TimeoutCall(t) ==
    /\ pc[t] = "work"
    /\ wl.tmo[t]
    /\ \E o \in {"return", "throw"} : hist' = [hist EXCEPT ![t] = Append(@, o)]
    /\ Catch(t, Core, NotAFunction)
    /\ UNCHANGED <<wl, wfVars, attempts, result, waits, subOrder, starts, envVars, obsVars, libVars>>

\* time passes until the next Time.wait timer expires
Tick ==
    /\ \E t \in TaskIds : pc[t] = "backoff" /\ timer[t] > 0
    /\ LET waiting == {t \in TaskIds : pc[t] = "backoff" /\ timer[t] > 0}
           dt == CHOOSE d \in {timer[t] : t \in waiting} :
                     \A t \in waiting : d <= timer[t]
       IN  /\ timer' = [t \in TaskIds |-> IF t \in waiting THEN timer[t] - dt ELSE timer[t]]
           /\ waitLog' = [t \in TaskIds |->
                  IF t \in waiting
                  THEN [waitLog[t] EXCEPT ![Len(waitLog[t])] = @ + dt]
                  ELSE waitLog[t]]
    /\ UNCHANGED <<wl, wfVars, tstate, attempts, result, error, fwd, idMap, pc, waits, outcome,
                   semVars, iterVars, starts, hist, rej, envVars, obsVars, libVars>>

\* Time.wait resolved: attempts++, the loop test, the next #attempt's checkPause
BackoffDone(t) ==
    /\ pc[t] = "backoff"
    /\ timer[t] = 0
    /\ attempts' = [attempts EXCEPT ![t] = @ + 1]
    /\ IF attempts[t] + 1 <= wl.retry[t]
       THEN pc' = [pc EXCEPT ![t] = AtGate] /\ UNCHANGED <<outcome, active, queue>>
       ELSE Settle(t, "value")
    /\ UNCHANGED <<wl, wfVars, tstate, result, error, fwd, idMap, waits, timer, iterVars,
                   histVars, envVars, obsVars, libVars>>

(***************************************************************************)
(* Workflow lifecycle: pause, resume, abort, end, remove.                  *)
(***************************************************************************)
RECURSIVE drainV(_, _)
\* the onBefore(["end", "abort"]) handler: removeVertex for every id of #toRemove
drainVMutant(V, ids) == V
drainV(V, ids) ==
    IF ids = {} THEN V
    ELSE LET id == CHOOSE x \in ids : TRUE IN drainV(removeVertexV(V, id), ids \ {id})

RECURSIVE drainE(_, _, _)
drainE(V, E, ids) ==
    IF ids = {} THEN E
    ELSE LET id == CHOOSE x \in ids : TRUE
         IN  drainE(removeVertexV(V, id), removeVertexE(V, E, id), ids \ {id})

RECURSIVE cancelAll(_, _)
\* forEach(t => t.cancel()) over the pending tasks; a throwing cancel ends it
cancelAll(c, ids) ==
    IF ids = <<>> THEN [c |-> c, threw |-> FALSE]
    ELSE LET r == invoke(c, Head(ids), "cancel")
         IN  IF r.res = "threw" THEN [c |-> r.c, threw |-> TRUE]
             ELSE cancelAll(r.c, Tail(ids))

\* the tasks the onEnter("aborted") handler cancels, in order
PendingToCancelMutant(c, V, E) == <<>>
PendingToCancel(c, V, E) ==
    SelectSeq(topoSort(V, E, wl.prio), LAMBDA t : c.ts[t] = "pending")

\* the onLeave("paused") handler resolves the pause gate: the attempts
\* suspended in checkPause resume
GateResolved(p) == [t \in TaskIds |-> IF p[t] = "gateWait" THEN "ready" ELSE p[t]]

\* the effects of the end / abort transition on the workflow's own state
LeaveToMutant(to) ==
    /\ wfState' = "idle"
    /\ dagV' = drainV(dagV, toRemove)
    /\ dagE' = drainE(dagV, dagE, toRemove)
    /\ processed' = processed \ toRemove
    /\ toRemove' = {}
    /\ pauseGate' = FALSE
    /\ pc' = IF wfState = "paused" THEN GateResolved(pc) ELSE pc
LeaveTo(to) ==
    /\ wfState' = to
    /\ dagV' = drainV(dagV, toRemove)
    /\ dagE' = drainE(dagV, dagE, toRemove)
    /\ processed' = processed \ toRemove
    /\ toRemove' = {}
    /\ pauseGate' = FALSE
    /\ pc' = IF wfState = "paused" THEN GateResolved(pc) ELSE pc

\* the abort transition with its handlers, from core c
AbortCore(c) ==
    cancelAll(c, PendingToCancel(c, drainV(dagV, toRemove), drainE(dagV, dagE, toRemove)))

\* pause(): returns at once when the workflow is paused, else the transition
Pause ==
    /\ wfState \in {"executing", "paused"}
    /\ "pause" \in wl.ops
    /\ IF wfState = "paused"
       THEN /\ "repeat" \in wl.ops
            /\ ctl' = <<"pause", "returned">>
            /\ UNCHANGED <<wfState, pauseGate, pauses>>
       ELSE /\ pauses < MaxPauses
            /\ wfState' = "paused"
            /\ pauseGate' = TRUE
            /\ pauses' = pauses + 1
            /\ UNCHANGED ctl
    /\ UNCHANGED <<wl, procPc, dagV, dagE, toRemove, processed, taskVars, semVars, iterVars,
                   histVars, removes, edits, snap, libVars>>

\* resume(): returns at once when the workflow is not paused, else the transition
Resume ==
    /\ wfState \in {"executing", "paused"}
    /\ "pause" \in wl.ops
    /\ IF wfState # "paused"
       THEN /\ "repeat" \in wl.ops
            /\ ctl' = <<"resume", "returned">>
            /\ UNCHANGED <<wfState, pauseGate, pc>>
       ELSE /\ wfState' = "executing"
            /\ pauseGate' = FALSE
            /\ pc' = GateResolved(pc)
            /\ UNCHANGED ctl
    /\ UNCHANGED <<wl, procPc, dagV, dagE, toRemove, processed, tstate, attempts, result,
                   error, fwd, idMap, waits, timer, outcome, semVars, iterVars, histVars, envVars,
                   snap, libVars>>

\* abort() called by the host: the abort transition, which is invalid (and
\* throws) when the workflow is aborted already
Abort ==
    /\ wfState \in {"executing", "paused", "aborted"}
    /\ "abort" \in wl.ops
    /\ IF wfState = "aborted"
       THEN /\ "repeat" \in wl.ops
            /\ ctl' = <<"abort", "threw">>
            /\ UNCHANGED <<wfState, pauseGate, dagV, dagE, toRemove, processed, pc,
                           tstate, error, fwd, idMap, iters, snap>>
       ELSE /\ LeaveTo("aborted")
            /\ SetCore(AbortCore(Core).c)
            /\ snap' = Snapshot(AbortCore(Core).c.ts)
            /\ UNCHANGED ctl
    /\ UNCHANGED <<wl, procPc, attempts, result, waits, timer, outcome, semVars, subOrder,
                   histVars, envVars, libVars>>

\* remove(id)
Remove(t) ==
    /\ removes < MaxRemoves
    /\ "remove" \in wl.ops
    /\ t \in Range(dagV)
    /\ removes' = removes + 1
    /\ IF wfState \in {"executing", "paused"}
       THEN /\ toRemove' = toRemove \cup {t}
            /\ UNCHANGED <<dagV, dagE, processed>>
       ELSE /\ dagV' = removeVertexV(dagV, t)
            /\ dagE' = removeVertexE(dagV, dagE, t)
            /\ processed' = processed \ {t}
            /\ UNCHANGED toRemove
    /\ SetCore(invoke(Core, t, "remove").c)
    /\ UNCHANGED <<wl, wfState, pauseGate, procPc, attempts, result, pc, waits, timer,
                   outcome, semVars, subOrder, histVars, pauses, edits, obsVars, libVars>>

(***************************************************************************)
(* Iteration: Workflow[Symbol.asyncIterator] and Workflow.try.             *)
(***************************************************************************)
\* the filter applied to a context read from the stream
SkipCtx(ctx) == ctx.to = "failed" /\ attempts[ctx.task] < wl.retry[ctx.task]

\* DAG.isTerminal(id): no vertex has id among its edges
isTerminal(id) == \A v \in Range(dagV) : id \notin Range(dagE[v])

\* the test stream() and try() make on a task the default iterator yielded
\* to them, before they yield it (stream) or its result (try) in turn
Passes(kind, t) ==
    CASE kind = "stream" ->
            /\ "*" \in wl.flt.states \/ tstate[t] \in wl.flt.states
            /\ isTerminal(t)
            /\ t \in wl.flt.accept
      [] kind = "try" ->
            /\ tstate[t] # "failed"
            /\ ~wl.flt.onlyTerminal \/ isTerminal(t)
            /\ t \in wl.flt.accept
      [] OTHER -> TRUE

\* the history of what iterator record it has yielded, after the default
\* iterator yielded task t: for stream() and try(), got is what they received
\* from it and out what they yielded to the consumer in turn.  (The field late
\* records that the iterator was started after #process had launched the
\* tasks.  None of these fields is read by the program.)
Yielded(it, t, final) ==
    [it EXCEPT !.seen = @ \cup {t}, !.dup = @ \/ t \in it.seen, !.early = @ \/ ~final,
               !.got = IF it.kind \in {"stream", "try"}
                       THEN @ \cup {[task |-> t, state |-> tstate[t], term |-> isTerminal(t)]}
                       ELSE @,
               !.out = IF it.kind \in {"stream", "try"} /\ Passes(it.kind, t)
                       THEN @ \cup {[task |-> t, state |-> tstate[t], val |-> result[t]]}
                       ELSE @]

\* after the loops: stream.cancel() (the handler stays subscribed), then the
\* end transition unless aborted.  its is the iterator state to start from
Finish(i, its, st) ==
    IF st = "aborted"
    THEN /\ iters' = [its EXCEPT ![i].pc = "done", ![i].sub = "closed"]
         /\ UNCHANGED <<wfState, pauseGate, dagV, dagE, toRemove, processed, pc>>
    ELSE IF st \in {"executing", "paused"}
    THEN /\ iters' = [its EXCEPT ![i].pc = "done", ![i].sub = "closed"]
         /\ LeaveTo("done")
    ELSE /\ iters' = [its EXCEPT ![i].pc = "threw", ![i].sub = "closed",
                                 ![i].thrown = InvalidTransition]
         /\ UNCHANGED <<wfState, pauseGate, dagV, dagE, toRemove, processed, pc>>

\* first next() of an iterator
IterStart(i) ==
    /\ iters[i].pc = "new"
    /\ iters[i].kind # "none"
    /\ IF wfState \in {"done", "aborted"}
       THEN /\ iters' = [iters EXCEPT ![i].pc = "cached", ![i].cache = getOrdered,
                                      ![i].late = TRUE]
            /\ UNCHANGED <<wfVars, subOrder, pc>>
       ELSE /\ subOrder' = Append(subOrder, i)
            /\ procPc' = IF wfState = "idle" THEN "begun" ELSE procPc
            /\ IF Len(getOrdered) = 0
               THEN Finish(i, [iters EXCEPT ![i].sub = "open", ![i].late = procPc = "done"],
                           IF wfState = "idle" THEN "executing" ELSE wfState)
               ELSE /\ iters' = [iters EXCEPT ![i].pc = "stream", ![i].sub = "open",
                                              ![i].olen = Len(getOrdered),
                                              ![i].late = procPc = "done"]
                    /\ wfState' = IF wfState = "idle" THEN "executing" ELSE wfState
                    /\ UNCHANGED <<pauseGate, dagV, dagE, toRemove, processed, pc>>
    /\ UNCHANGED <<wl, tstate, attempts, result, error, fwd, idMap, waits, timer, outcome, semVars,
                   histVars, envVars, obsVars, libVars>>

\* the consumer's next(): read one context from the stream
IterPull(i) ==
    /\ iters[i].pc = "stream"
    /\ iters[i].buf # <<>>
    /\ LET ctx == Head(iters[i].buf)
           t == ctx.task
           its == [iters EXCEPT ![i].buf = Tail(@)]
           ity == [its EXCEPT ![i] = Yielded(@, t, ctx.final)]
       IN  IF SkipCtx(ctx)
           THEN /\ iters' = its
                /\ UNCHANGED <<wfVars, tstate, error, fwd, idMap, pc, snap>>
           ELSE IF iters[i].kind = "try" /\ tstate[t] = "failed"
           THEN \* try: this.abort(); throw task.error
                IF wfState \in {"executing", "paused"}
                THEN LET r == AbortCore([Core EXCEPT !.its = ity])
                     IN  /\ LeaveTo("aborted")
                         /\ tstate' = r.c.ts
                         /\ error' = r.c.er
                         /\ fwd' = r.c.fw
                         /\ idMap' = r.c.im
                         /\ iters' = [r.c.its EXCEPT
                                ![i].pc = "threw", ![i].sub = "orphan", ![i].cause = t,
                                ![i].thrown = IF r.threw THEN ControllerClosed
                                              ELSE error[t]]
                         /\ snap' = Snapshot(r.c.ts)
                         /\ UNCHANGED procPc
                ELSE /\ iters' = [ity EXCEPT ![i].pc = "threw", ![i].sub = "orphan",
                                             ![i].cause = t,
                                             ![i].thrown = InvalidTransition]
                     /\ UNCHANGED <<wfVars, tstate, error, fwd, idMap, pc, snap>>
           ELSE \* yield ctx.payload: the generator is suspended at the yield
                /\ iters' = [ity EXCEPT ![i].pc = "yielded"]
                /\ UNCHANGED <<wfVars, tstate, error, fwd, idMap, pc, snap>>
    /\ UNCHANGED <<wl, attempts, result, waits, timer, outcome, semVars, subOrder,
                   histVars, envVars, ctl, libVars>>

\* the consumer's next() after a yield: ++count >= ordered.length, and when
\* the inner loop breaks the outer loop reads getOrdered() again
IterResume(i) ==
    /\ iters[i].pc = "yielded"
    /\ LET n == iters[i].count + 1
           its == [iters EXCEPT ![i].count = n, ![i].pc = "stream"]
       IN  IF n >= iters[i].olen /\ n >= Len(getOrdered)
           THEN Finish(i, its, wfState)
           ELSE /\ iters' = [its EXCEPT ![i].olen = IF n >= iters[i].olen
                                                    THEN Len(getOrdered) ELSE @]
                /\ UNCHANGED <<wfState, pauseGate, dagV, dagE, toRemove, processed, pc>>
    /\ UNCHANGED <<wl, procPc, tstate, attempts, result, error, fwd, idMap, waits, timer, outcome,
                   semVars, subOrder, histVars, envVars, obsVars, libVars>>

\* next() of an iterator started on a done or aborted workflow:
\* yield* this.getOrdered()
IterCached(i) ==
    /\ iters[i].pc = "cached"
    /\ IF iters[i].pos > Len(iters[i].cache)
       THEN iters' = [iters EXCEPT ![i].pc = "done"]
       ELSE LET t == iters[i].cache[iters[i].pos]
                ity == [iters EXCEPT ![i] = Yielded(@, t, TRUE)]
            IN  IF iters[i].kind = "try" /\ tstate[t] = "failed"
                THEN iters' = [ity EXCEPT ![i].pc = "threw", ![i].cause = t,
                                          ![i].thrown = InvalidTransition]
                ELSE iters' = [ity EXCEPT ![i].pos = @ + 1]
    /\ UNCHANGED <<wl, wfVars, tstate, attempts, result, error, fwd, idMap, pc, waits, timer,
                   outcome, semVars, subOrder, histVars, envVars, obsVars, libVars>>

Next ==
    \/ ProcessLaunch
    \/ \E t \in TaskIds : RunDeps(t)
    \/ \E t \in TaskIds : AwaitDeps(t)
    \/ \E t \in TaskIds : Start(t)
    \/ \E t \in TaskIds : WorkReturns(t)
    \/ \E t \in TaskIds : WorkThrows(t)
    \/ \E t \in TaskIds : TimeoutCall(t)
    \/ Tick
    \/ \E t \in TaskIds : BackoffDone(t)
    \/ Pause
    \/ Resume
    \/ Abort
    \/ \E t \in TaskIds : Remove(t)
    \/ \E i \in Iters : IterStart(i)
    \/ \E i \in Iters : IterPull(i)
    \/ \E i \in Iters : IterResume(i)
    \/ \E i \in Iters : IterCached(i)

Spec == Init /\ [][Next]_vars

(***************************************************************************)
(* Building the graph: Workflow.add and DAG.addEdge on an idle workflow.   *)
(***************************************************************************)
\* the reliesOn lists a task may be given (the Vertex keeps them as a Set)
DagIds == {"a", "b", "c"}
DepLists ==
    {s \in UNION {[1..n -> DagIds \cup {Unknown}] : n \in 0..MaxDeps} :
        \A i, j \in 1..Len(s) : s[i] = s[j] => i = j}

InitDag == wl = Workload("empty", <<>>, NoDeps, NoRetry, 1, <<"none", "none">>, {})
           /\ Constructed /\ LibIdle

\* the priorities a task may be given
Priorities == {0, 1}

\* Workflow.add(work, {id, reliesOn, priority}): new Task, then dag.addVertex,
\* which only refuses an id that is already a vertex
add(id, reliesOn, priority) ==
    /\ id \notin Range(dagV)
    /\ wl' = [wl EXCEPT !.ids = Append(@, id), !.rel[id] = reliesOn,
                        !.prio[id] = priority]
    /\ tstate' = [tstate EXCEPT ![id] = "pending"]
    /\ fwd' = [fwd EXCEPT ![id] = TRUE]
    /\ idMap' = [idMap EXCEPT ![id] = "task"]
    /\ pc' = [pc EXCEPT ![id] = "new"]
    /\ dagV' = Append(dagV, id)
    /\ dagE' = [dagE EXCEPT ![id] = reliesOn]
    /\ UNCHANGED <<wfState, pauseGate, procPc, toRemove, processed, attempts, result, error,
                   waits, timer, outcome, semVars, iterVars, histVars, envVars, obsVars, libVars>>

ReachedMutant(V, E, id) == {id}
\* the vertices #dfsFrom(id) yields when called without a comparator
Reached(V, E, id) ==
    Range(dfsFrom(V, E, wl.prio, id, [out |-> <<>>, visited |-> {}], FALSE).out)

\* the two throws of DAG.addEdge: a self-edge, and fromId among the vertices
\* #dfsFrom(toId) yields
addEdgeThrows(V, E, fromId, toId) ==
    fromId = toId \/ fromId \in Reached(V, E, toId)
\* from.edges.add(toId) when both ends are vertices (edges is a Set)
addEdgeE(V, E, fromId, toId) ==
    IF fromId \in Range(V) /\ toId \in Range(V) /\ toId \notin Range(E[fromId])
    THEN [E EXCEPT ![fromId] = Append(@, toId)]
    ELSE E

\* DAG.addEdge(fromId, toId): refuses a self-edge and an edge that closes a
\* cycle, and adds the edge when both ends are vertices
addEdge(fromId, toId) ==
    /\ ~addEdgeThrows(dagV, dagE, fromId, toId)
    /\ dagE' = addEdgeE(dagV, dagE, fromId, toId)
    /\ dagE' # dagE
    /\ UNCHANGED <<wl, wfState, pauseGate, procPc, dagV, toRemove, processed, taskVars,
                   semVars, iterVars, histVars, envVars, obsVars, libVars>>

NextDag ==
    \/ \E id \in DagIds, reliesOn \in DepLists, priority \in Priorities :
            add(id, reliesOn, priority)
    \/ \E fromId, toId \in DagIds \cup {Unknown} : addEdge(fromId, toId)

SpecDag == InitDag /\ [][NextDag]_vars

(***************************************************************************)
(* Calls on a graph that is built already, on an idle workflow, each with  *)
(* its outcome recorded: ctl is <<call, outcome, arguments>>.              *)
(***************************************************************************)
MaxEdits == 2

\* a task added before the task it relies on
Ahead ==
    Workload("ahead", <<"a", "b">>, [NoDeps EXCEPT !["a"] = <<"c">>], NoRetry, 1,
             <<"default", "none">>, {})

InitEdit ==
    /\ wl \in {w \in Workloads : w.name \in {"chain", "twins", "stray", "trio"}} \cup {Ahead}
    /\ Constructed /\ LibIdle

\* Workflow.add(work, {id, reliesOn, priority}): the Task constructor
\* registers a new machine under id and invokes add on it (pending.enter is
\* no event the iterators' streams subscribe to), then dag.addVertex throws
\* when id is a vertex already
AddCall(id, reliesOn, priority) ==
    /\ edits < MaxEdits
    /\ edits' = edits + 1
    /\ IF id \in Range(dagV)
       THEN /\ idMap' = [idMap EXCEPT ![id] = "other"]
            /\ ctl' = <<"add", "threw", id>>
            /\ UNCHANGED <<wl, tstate, fwd, pc, dagV, dagE>>
       ELSE /\ wl' = [wl EXCEPT !.ids = Append(@, id), !.rel[id] = reliesOn,
                                !.prio[id] = priority]
            /\ tstate' = [tstate EXCEPT ![id] = "pending"]
            /\ fwd' = [fwd EXCEPT ![id] = TRUE]
            /\ idMap' = [idMap EXCEPT ![id] = "task"]
            /\ pc' = [pc EXCEPT ![id] = "new"]
            /\ dagV' = Append(dagV, id)
            /\ dagE' = [dagE EXCEPT ![id] = reliesOn]
            /\ ctl' = <<"add", "returned", id>>
    /\ UNCHANGED <<wfState, pauseGate, procPc, toRemove, processed, attempts, result, error,
                   waits, timer, outcome, semVars, iterVars, histVars, removes, pauses, snap,
                   libVars>>

\* DAG.addEdge(fromId, toId), with both throws
AddEdgeCall(fromId, toId) ==
    /\ edits < MaxEdits
    /\ edits' = edits + 1
    /\ IF addEdgeThrows(dagV, dagE, fromId, toId)
       THEN /\ ctl' = <<"addEdge", "threw", fromId, toId>>
            /\ UNCHANGED dagE
       ELSE /\ ctl' = <<"addEdge", "returned", fromId, toId>>
            /\ dagE' = addEdgeE(dagV, dagE, fromId, toId)
    /\ UNCHANGED <<wl, wfState, pauseGate, procPc, dagV, toRemove, processed, taskVars,
                   semVars, iterVars, histVars, removes, pauses, snap, libVars>>

\* Workflow.getOrdered() on the idle workflow: the sort is returned, and the
\* edge Sets are left as the traversal rewrote them (a call on a graph that
\* no mutator has touched since the last sort returns the cache, and the
\* rewrite of a graph that was just rewritten changes nothing)
GetOrderedCall ==
    /\ edits < MaxEdits
    /\ edits' = edits + 1
    /\ ctl' = <<"getOrdered", "returned", getOrdered>>
    /\ dagE' = topoSortE(dagV, dagE, wl.prio)
    /\ UNCHANGED <<wl, wfState, pauseGate, procPc, dagV, toRemove, processed, taskVars,
                   semVars, iterVars, histVars, removes, pauses, snap, libVars>>

NextEdit ==
    \/ \E id \in DagIds : AddCall(id, <<>>, 0)
    \/ \E fromId, toId \in DagIds \cup {Unknown} : AddEdgeCall(fromId, toId)
    \/ GetOrderedCall

SpecEdit == InitEdit /\ [][NextEdit]_vars

(***************************************************************************)
(* A StateMachine used on its own, with a handler on every event that      *)
(* records the event, the state it reads and the context it is given.      *)
(***************************************************************************)
MaxInvokes == 3

FsmTransitions(def) ==
    IF def = "task"
    THEN {"add", "start", "cancel", "succeed", "fail", "timeout", "retry", "remove"}
    ELSE {"begin", "pause", "resume", "end", "abort"}

\* stateDef.transitions[tr].from, "*" standing for every state
FsmFrom(def, tr) ==
    IF def = "task" THEN (IF tr = "add" THEN {"created"} ELSE TaskFrom(tr))
    ELSE CASE tr = "begin" -> {"idle"}
           [] tr = "pause" -> {"executing"}
           [] tr = "resume" -> {"paused"}
           [] tr = "end" -> {"executing", "paused"}
           [] tr = "abort" -> {"executing", "paused"}

\* stateDef.transitions[tr].to
FsmTo(def, tr) ==
    IF def = "task" THEN (IF tr = "add" THEN "pending" ELSE TaskTo(tr))
    ELSE CASE tr = "begin" -> "executing"
           [] tr = "pause" -> "paused"
           [] tr = "resume" -> "executing"
           [] tr = "end" -> "done"
           [] tr = "abort" -> "aborted"

\* this.#signaller.emit(`${name}.${kind}`, ctx): the handler records what it
\* observes, and throws when it is the handler chosen to throw (th); nothing
\* is emitted once a handler has thrown
FsmEmit(m, name, kind, ctx, th) ==
    IF m.res = "threw" THEN m
    ELSE [m EXCEPT !.log = Append(@, [event |-> <<name, kind>>, saw |-> m.state,
                                       ctx |-> ctx]),
                   !.res = IF th = kind THEN "threw" ELSE @]

\* this.#state = to
FsmAssignMutant(m, to) == m
FsmAssign(m, to) == IF m.res = "threw" THEN m ELSE [m EXCEPT !.state = to]

\* the test of do[transition]: from is an array that includes the state, or a
\* string that is the state or "*"
FsmValidMutant(m, tr) == TRUE
FsmValid(m, tr) == m.state \in FsmFrom(m.def, tr)

\* do[transition](payload)
FsmDo(m, tr, th) ==
    IF ~FsmValid(m, tr)
    THEN [m EXCEPT !.log = <<>>, !.res = "invalid", !.n = @ + 1,
                   !.last = tr, !.was = m.state]
    ELSE LET to == FsmTo(m.def, tr)
             ctx == [id |-> "id", payload |-> "instance", from |-> m.state, to |-> to,
                     transition |-> tr]
             m0 == [m EXCEPT !.log = <<>>, !.res = "emitting", !.n = @ + 1,
                             !.last = tr, !.was = m.state]
             m1 == FsmEmit(m0, tr, "before", ctx, th)
             m2 == FsmEmit(m1, m1.state, "leave", ctx, th)
             m3 == FsmAssign(m2, to)
             m4 == FsmEmit(m3, to, "enter", ctx, th)
             m5 == FsmEmit(m4, tr, "after", ctx, th)
         IN  IF m5.res = "threw" THEN m5 ELSE [m5 EXCEPT !.res = "ok"]

\* StateMachine.invoke(transition)
FsmInvoke(tr, th) ==
    /\ fsm.n < MaxInvokes
    /\ fsm' = FsmDo(fsm, tr, th)
    /\ UNCHANGED <<wl, wfVars, taskVars, semVars, iterVars, histVars, envVars, obsVars, sem, sig, tk>>

InitFsm ==
    /\ wl = Workload("empty", <<>>, NoDeps, NoRetry, 1, <<"none", "none">>, {})
    /\ Constructed
    /\ sem = NewSemaphore(1)
    /\ sig = NewSignaller
    /\ tk = NewTask(0)
    /\ fsm \in {NewStateMachine(def) : def \in {"task", "workflow"}}

NextFsm ==
    \E tr \in FsmTransitions(fsm.def), th \in {"none", "before", "leave", "enter", "after"} :
        FsmInvoke(tr, th)

SpecFsm == InitFsm /\ [][NextFsm]_vars

(***************************************************************************)
(* A Signaller used on its own: a handler "h" on one event, a wildcard     *)
(* handler "w", and streams over both events, each read by a consumer.     *)
(* A subscriber is <<"h", 0>>, <<"w", 0>> or <<"s", i>>, the handler       *)
(* data => controller.enqueue(data) of stream i.                           *)
(***************************************************************************)
MaxSigOps == 4

\* Set.prototype.add on a Set kept as a sequence
SetAdd(q, x) == IF x \in Range(q) THEN q ELSE Append(q, x)

\* the record of a call: what was called, with what, and how it ended
SigCalled(g, name, arg, res) ==
    [g EXCEPT !.last = name, !.arg = arg, !.res = res, !.n = @ + 1]

\* on(event, cb) with event a name, and on("*", cb)
SigOn(sub, ev) ==
    /\ sig.n < MaxSigOps
    /\ sig' = SigCalled(IF ev = "*" THEN [sig EXCEPT !.wc = SetAdd(@, sub)]
                        ELSE [sig EXCEPT !.hs[ev] = SetAdd(@, sub)],
                        "on", ev, "ok")
    /\ UNCHANGED <<wl, wfVars, taskVars, semVars, iterVars, histVars, envVars, obsVars, fsm, sem, tk>>

\* clear(event): this.#wc.clear() first, then the handler Sets of every
\* event for "*", of the named event otherwise
clearWc(wc, ev) == <<>>
clearHs(hs, ev) == [e \in SigEvents |-> IF ev = "*" \/ e = ev THEN <<>> ELSE hs[e]]
SigClear(ev) ==
    /\ sig.n < MaxSigOps
    /\ LET hs == clearHs(sig.hs, ev)
       IN  sig' = SigCalled(
                     [sig EXCEPT !.wc = clearWc(@, ev), !.hs = hs,
                                 !.st = [i \in SigStreams |->
                                     [@[i] EXCEPT !.cut = @ \/ \E e \in SigEvents :
                                         <<"s", i>> \in Range(sig.hs[e]) \ Range(hs[e])]]],
                     "clear", ev, "ok")
    /\ UNCHANGED <<wl, wfVars, taskVars, semVars, iterVars, histVars, envVars, obsVars, fsm, sem, tk>>

\* stream(["e1", "e2"]): start(controller) subscribes the enqueueing handler
SigStream(i) ==
    /\ sig.n < MaxSigOps
    /\ sig.st[i].state = "none"
    /\ sig' = SigCalled(
                  [sig EXCEPT !.hs = [e \in SigEvents |-> SetAdd(sig.hs[e], <<"s", i>>)],
                              !.st[i].state = "open"],
                  "stream", i, "ok")
    /\ UNCHANGED <<wl, wfVars, taskVars, semVars, iterVars, histVars, envVars, obsVars, fsm, sem, tk>>

\* stream.cancel(): the source's cancel(reason) is called with the reason,
\* undefined, as its argument, so `controller?.off()` does nothing; the
\* stream is closed and its queue dropped
cancelHs(hs, i) == hs
SigCancel(i) ==
    /\ sig.n < MaxSigOps
    /\ sig.st[i].state = "open"
    /\ sig' = SigCalled([sig EXCEPT !.hs = cancelHs(@, i), !.st[i].state = "cancelled",
                                    !.st[i].buf = <<>>],
                        "cancel", i, "ok")
    /\ UNCHANGED <<wl, wfVars, taskVars, semVars, iterVars, histVars, envVars, obsVars, fsm, sem, tk>>

RECURSIVE sigCall(_, _, _)
\* forEach over subscribers: "h" and "w" observe; a stream's handler enqueues,
\* and controller.enqueue throws a TypeError once the stream is closed, which
\* ends the forEach and the emit
sigCall(g, subs, data) ==
    IF subs = <<>> \/ g.res = "threw" THEN g
    ELSE LET sub == Head(subs)
             g1 == [g EXCEPT !.calls = Append(@, sub)]
         IN  sigCall(IF sub[1] # "s" THEN g1
                     ELSE IF g.st[sub[2]].state = "open"
                     THEN [g1 EXCEPT !.st[sub[2]].buf = Append(@, data)]
                     ELSE [g1 EXCEPT !.res = "threw"],
                     Tail(subs), data)

\* emit(event, data): the wildcard handlers, then the handlers of the event;
\* data is the number of the call, so that every emitted value is distinct
SigEmit(ev) ==
    /\ sig.n < MaxSigOps
    /\ LET data == sig.n + 1
           g0 == [SigCalled(sig, "emit", ev, "ok") EXCEPT
                      !.calls = <<>>,
                      !.st = [i \in SigStreams |->
                                 IF sig.st[i].state = "open"
                                 THEN [@[i] EXCEPT !.due = Append(@, data)] ELSE @[i]]]
       IN  sig' = sigCall(sigCall(g0, sig.wc, data), sig.hs[ev], data)
    /\ UNCHANGED <<wl, wfVars, taskVars, semVars, iterVars, histVars, envVars, obsVars, fsm, sem, tk>>

\* the consumer of stream i reads one value
SigPull(i) ==
    /\ sig.n < MaxSigOps
    /\ sig.st[i].state = "open"
    /\ sig.st[i].buf # <<>>
    /\ sig' = SigCalled([sig EXCEPT !.st[i].buf = Tail(@),
                                    !.st[i].got = Append(@, Head(sig.st[i].buf))],
                        "pull", i, "ok")
    /\ UNCHANGED <<wl, wfVars, taskVars, semVars, iterVars, histVars, envVars, obsVars, fsm, sem, tk>>

InitSig ==
    /\ wl = Workload("empty", <<>>, NoDeps, NoRetry, 1, <<"none", "none">>, {})
    /\ Constructed
    /\ LibIdle

NextSig ==
    \/ \E ev \in SigEvents : SigOn(<<"h", 0>>, ev)
    \/ SigOn(<<"w", 0>>, "*")
    \/ \E ev \in SigEvents \cup {"*"} : SigClear(ev)
    \/ \E i \in SigStreams : SigStream(i)
    \/ \E i \in SigStreams : SigCancel(i)
    \/ \E ev \in SigEvents : SigEmit(ev)
    \/ \E i \in SigStreams : SigPull(i)

SpecSig == InitSig /\ [][NextSig]_vars

(***************************************************************************)
(* The timeout of a Task (src/workflow/Task.js): #attempt arms a timer     *)
(* with Time.delay and races it against the work; nothing disarms it.      *)
(* Every timer has the same duration, so timers elapse in the order they   *)
(* were armed; how long the work and the backoff take is free.             *)
(***************************************************************************)
MaxTmoRetry == 3

\* this.#fsm.invoke(tr) on the task's own machine
tkInvoke(g, tr) ==
    IF g.state \in TaskFrom(tr)
    THEN [g |-> [g EXCEPT !.state = TaskTo(tr)], res |-> "ok"]
    ELSE [g |-> g, res |-> "invalid"]

\* the catch block of execute, entered with error e: a throw inside the
\* block rejects execute, the last attempt returns the error
tkCatch(g, e) ==
    LET g1 == [g EXCEPT !.error = e]
        r == IF g1.state # "failed" THEN tkInvoke(g1, "fail") ELSE [g |-> g1, res |-> "ok"]
        q == tkInvoke(r.g, "retry")
    IN  IF r.res # "ok" THEN [r.g EXCEPT !.pc = "done", !.ret = "threw"]
        ELSE IF r.g.attempts = r.g.retryLimit THEN [r.g EXCEPT !.pc = "done", !.ret = "error"]
        ELSE IF q.res # "ok" THEN [q.g EXCEPT !.pc = "done", !.ret = "threw"]
        ELSE [q.g EXCEPT !.pc = "backoff"]

\* #attempt up to its await of the race: start, call the work, arm the timer
tkAttempt(g) ==
    LET r == tkInvoke(g, "start")
    IN  IF g.state = "removed" THEN tkCatch(g, RemovedBeforeExecution)
        ELSE IF r.res # "ok" THEN tkCatch(g, InvalidTransition)
        ELSE [r.g EXCEPT !.error = NoError, !.timers = Append(@, g.attempts), !.pc = "work"]

TkRest == UNCHANGED <<wl, wfVars, taskVars, semVars, iterVars, histVars, envVars, obsVars,
                      fsm, sem, sig>>

\* execute(depResults) is called: the first attempt begins
TkExecute ==
    /\ tk.pc = "new"
    /\ tk' = tkAttempt(tk)
    /\ TkRest

\* the work of the attempt in flight resolves before the timer elapses
TkWorkReturns ==
    /\ tk.pc = "work"
    /\ LET r == tkInvoke([tk EXCEPT !.result = "value"], "succeed")
       IN  tk' = IF r.res = "ok" THEN [r.g EXCEPT !.pc = "done", !.ret = "value"]
                 ELSE tkCatch(r.g, InvalidTransition)
    /\ TkRest

\* the work of the attempt in flight rejects before the timer elapses
TkWorkThrows ==
    /\ tk.pc = "work"
    /\ tk' = tkCatch(tk, WorkError(tk.attempts))
    /\ TkRest

\* the oldest armed timer elapses: its callback invokes timeout and throws;
\* the race it belongs to rejects if it has not settled yet
TkTimer ==
    /\ tk.timers # <<>>
    /\ LET k == Head(tk.timers)
           g == [tk EXCEPT !.timers = Tail(@), !.fired = Append(@, k)]
           r == tkInvoke(g, "timeout")
       IN  tk' = IF g.pc = "work" /\ k = g.attempts
                 THEN tkCatch(r.g, IF r.res = "ok" THEN TimedOut ELSE InvalidTransition)
                 ELSE r.g
    /\ TkRest

\* the backoff wait ends: the loop increments attempts and attempts again
TkBackoffDone ==
    /\ tk.pc = "backoff"
    /\ tk' = tkAttempt([tk EXCEPT !.attempts = @ + 1])
    /\ TkRest

InitTmo ==
    /\ wl = Workload("empty", <<>>, NoDeps, NoRetry, 1, <<"none", "none">>, {})
    /\ Constructed
    /\ fsm = NewStateMachine("task")
    /\ sem = NewSemaphore(1)
    /\ sig = NewSignaller
    /\ tk \in {NewTask(rl) : rl \in 0..MaxTmoRetry}

NextTmo == TkExecute \/ TkWorkReturns \/ TkWorkThrows \/ TkTimer \/ TkBackoffDone

SpecTmo == InitTmo /\ [][NextTmo]_vars

(***************************************************************************)
(* A Semaphore used on its own by callers that acquire, hold and release.  *)
(* A caller is "out", "queued" (awaiting the promise whose resolve is in   *)
(* the queue), "woken" (resolved, its continuation not yet run) or         *)
(* "holding".                                                              *)
(***************************************************************************)
\* acquire() up to its return or its await
SemAcquire(c) ==
    /\ sem.cl[c] = "out"
    /\ sem' = IF sem.active < sem.max
              THEN [sem EXCEPT !.active = @ + 1, !.cl[c] = "holding"]
              ELSE [sem EXCEPT !.queue = Append(@, c), !.cl[c] = "queued"]
    /\ UNCHANGED <<wl, wfVars, taskVars, semVars, iterVars, histVars, envVars, obsVars, fsm, sig, tk>>

\* acquire() after its await: this.#active++.  The continuations of the
\* resolved promises run in the order in which release() resolved them
SemResume(c) ==
    /\ sem.cl[c] = "woken"
    /\ c = Head(sem.woken)
    /\ sem' = [sem EXCEPT !.active = @ + 1, !.cl[c] = "holding", !.woken = Tail(@)]
    /\ UNCHANGED <<wl, wfVars, taskVars, semVars, iterVars, histVars, envVars, obsVars, fsm, sig, tk>>

\* release(), called by a holder
SemRelease(c) ==
    /\ sem.cl[c] = "holding"
    /\ sem' = IF sem.queue = <<>>
              THEN [sem EXCEPT !.active = @ - 1, !.cl[c] = "out"]
              ELSE [sem EXCEPT !.active = @ - 1, !.cl[c] = "out",
                               !.queue = Tail(@), !.cl[Head(sem.queue)] = "woken",
                               !.woken = Append(@, Head(sem.queue))]
    /\ UNCHANGED <<wl, wfVars, taskVars, semVars, iterVars, histVars, envVars, obsVars, fsm, sig, tk>>

InitSem ==
    /\ wl = Workload("empty", <<>>, NoDeps, NoRetry, 1, <<"none", "none">>, {})
    /\ Constructed
    /\ fsm = NewStateMachine("task")
    /\ sig = NewSignaller
    /\ tk = NewTask(0)
    /\ sem \in {NewSemaphore(max) : max \in 1..2}

NextSem ==
    \/ \E c \in SemClients : SemAcquire(c)
    \/ \E c \in SemClients : SemResume(c)
    \/ \E c \in SemClients : SemRelease(c)

SpecSem == InitSem /\ [][NextSem]_vars

\* some step of the program itself is possible: a continuation of #process, of
\* a task's #run or of an iterator is ready, or a timer is pending
CanProgress ==
    \/ procPc = "begun"
    \/ \E t \in TaskIds : pc[t] \in {"locked", "woken", "ready", "work", "backoff"}
    \/ \E t \in TaskIds : pc[t] = "deps" /\ DepsSettled(t)
    \/ \E i \in Iters : iters[i].pc \in {"cached", "yielded"}
    \/ \E i \in Iters : iters[i].pc = "stream" /\ iters[i].buf # <<>>

(***************************************************************************)
(* Properties.                                                             *)
(***************************************************************************)
Tasks == Range(wl.ids)
Running == {t \in TaskIds : tstate[t] = "running"}
\* a terminal lifecycle state: succeeded, cancelled, removed, or failed with
\* the retries exhausted
SettledState(t) ==
    \/ tstate[t] \in {"succeeded", "cancelled", "removed"}
    \/ tstate[t] = "failed" /\ attempts[t] >= wl.retry[t]
Last(s) == s[Len(s)]

\* C1: a task is running only when every task named in its reliesOn list has
\* reached a settled outcome (succeeded, failed with retries exhausted,
\* cancelled or removed)
C1_TopologicalStart ==
    \A t \in TaskIds : tstate[t] = "running" =>
        \A d \in Range(wl.rel[t]) : d \in Tasks /\ SettledState(d)
\* a dependent runs after its dependency was retried
C1_Witness ==
    /\ wl.name = "chain"
    /\ tstate["b"] = "running"
    /\ starts["a"] = 2

\* C2: the number of running tasks never exceeds maxConcurrent
C2_ConcurrencyBound == Cardinality(Running) <= wl.maxc
\* all permits are in use by running tasks while another task waits its turn
C2_Witness ==
    /\ Cardinality(Running) = wl.maxc
    /\ wl.maxc = 2
    /\ queue # <<>>

\* some dependency of t settled with an error outcome
DepErrored(t) == \E d \in Range(wl.rel[t]) : d \notin Tasks \/ outcome[d] = "error"

C5_IteratorCompletes ==
    (wl.kinds[2] = "none" /\ wfState # "paused" /\ ~CanProgress) =>
        \A i \in Iters : iters[i].pc \in {"new", "done", "threw"}

RECURSIVE Closure(_, _, _)
\* the vertices reachable from the set s along edges
Closure(V, E, s) ==
    LET nxt == s \cup {d \in Range(V) : \E v \in s : d \in Range(E[v])}
    IN  IF nxt = s THEN s ELSE Closure(V, E, nxt)
\* the vertices reachable from v along one edge or more
Successors(V, E, v) == Closure(V, E, {d \in Range(V) : d \in Range(E[v])})

\* C6: the dependency graph has no directed cycle and no vertex lists itself
\* in its outgoing set
C6_Acyclic ==
    \A v \in Range(dagV) : v \notin Range(dagE[v]) /\ v \notin Successors(dagV, dagE, v)

\* C7: a task performs at most retryLimit + 1 start transitions, and the wait
\* before attempt k + 1 is at least backoff * 2^k
C7_RetryArithmetic ==
    \A t \in Tasks :
        /\ starts[t] <= wl.retry[t] + 1
        /\ \A k \in 1..Len(waitLog[t]) :
               starts[t] > k => waitLog[t][k] >= wl.backoff[t] * Pow2(k - 1)
\* the third attempt of a task with retryLimit 2 has started
C7_Witness == \E t \in Tasks : starts[t] = 3 /\ Len(waitLog[t]) = 2

\* C8: a finished task's attempts counter is the number of attempts it made
C8_AttemptsCounted ==
    \A t \in Tasks : (pc[t] = "settled" /\ starts[t] > 0) => attempts[t] = starts[t]

\* the task was removed at some time
WasRemoved(t) == tstate[t] = "removed" \/ t \notin Range(dagV)

\* C9: a task (that is not removed meanwhile) whose work returns v after
\* f <= retryLimit throws ends succeeded with result v, and a task whose work
\* threw on all retryLimit + 1 attempts ends failed with the last error thrown;
\* no task succeeds without its work having returned
C9_RetryOutcome ==
    /\ \A t \in Tasks : (pc[t] = "settled" /\ hist[t] # <<>> /\ ~WasRemoved(t)) =>
        /\ Last(hist[t]) = "return" => tstate[t] = "succeeded" /\ result[t] = "v"
        /\ (Len(hist[t]) = wl.retry[t] + 1 /\ \A k \in 1..Len(hist[t]) : hist[t][k] = "throw")
               => /\ tstate[t] = "failed"
                  /\ error[t] = WorkError(wl.retry[t])
    /\ \A t \in Tasks : (\A k \in 1..Len(hist[t]) : hist[t][k] # "return")
                             => tstate[t] # "succeeded"

\* C10: when try() meets a failed task it raises that task's error and the
\* workflow is aborted
C10_TryFailFast ==
    \A i \in Iters : (iters[i].kind = "try" /\ iters[i].pc = "threw") =>
        /\ iters[i].thrown = error[iters[i].cause]
        /\ wfState = "aborted"

\* C11: at the abort transition every task that is pending becomes cancelled,
\* starts no attempt afterwards and stays cancelled (or removed, when remove is
\* called on it), and every task that is running stays running
C11_AbortCancelsPending ==
    snap # NoSnap =>
        \A t \in TaskIds :
            /\ snap.before[t] = "pending" =>
                   /\ snap.after[t] = "cancelled"
                   /\ starts[t] = snap.starts[t]
                   /\ tstate[t] \in {"cancelled", "removed"}
            /\ snap.before[t] = "running" => snap.after[t] = "running"
\* a task that was running at the abort has succeeded, and a task that was
\* pending between two attempts was cancelled and its run has settled
C11_Witness ==
    /\ snap # NoSnap
    /\ \E t \in Tasks : snap.before[t] = "running" /\ tstate[t] = "succeeded"
    /\ \E t \in Tasks : /\ snap.before[t] = "pending" /\ snap.starts[t] > 0
                         /\ tstate[t] = "cancelled" /\ pc[t] = "settled"

\* C12: while the workflow is paused no task performs the start transition
C12_NoStartWhilePaused ==
    [][wfState = "paused" => \A t \in TaskIds : starts'[t] = starts[t]]_vars

\* the tasks t depends on, directly or transitively
DepsOf(t) == Successors(wl.ids, wl.rel, t)
\* t depends, directly or transitively, on a task that did not succeed, on an
\* id that names no task, or on itself
Blocked(t) ==
    \/ t \in DepsOf(t)
    \/ \E d \in DepsOf(t) : tstate[d] \in {"failed", "cancelled", "removed"}
    \/ \E u \in DepsOf(t) \cup {t} : \E d \in Range(wl.rel[u]) : d \notin Tasks

C14_EventOrder ==
    fsm.res = "ok" =>
        /\ Len(fsm.log) = 4
        /\ LET ctx == fsm.log[1].ctx
           IN  /\ \A k \in 1..4 : fsm.log[k].ctx = ctx
               /\ ctx.from \in FsmFrom(fsm.def, ctx.transition)
               /\ ctx.to = FsmTo(fsm.def, ctx.transition)
               /\ fsm.log[1].event = <<ctx.transition, "before">>
               /\ fsm.log[2].event = <<ctx.from, "leave">>
               /\ fsm.log[3].event = <<ctx.to, "enter">>
               /\ fsm.log[4].event = <<ctx.transition, "after">>
               /\ fsm.log[1].saw = ctx.from /\ fsm.log[2].saw = ctx.from
               /\ fsm.log[3].saw = ctx.to /\ fsm.log[4].saw = ctx.to
               /\ fsm.state = ctx.to
\* a task machine was added and then started successfully
C14_Witness ==
    /\ fsm.res = "ok"
    /\ fsm.def = "task"
    /\ fsm.log[1].ctx.transition = "start"
    /\ fsm.state = "running"

\* C15: Semaphore.active never exceeds max
C15_SemaphoreBound == sem.active <= sem.max

\* the step performs the end or the abort transition
EndsOrAborts == wfState \in {"executing", "paused"} /\ wfState' \in {"done", "aborted"}

\* C16: remove(X) on an executing or paused workflow performs X's remove
\* transition at once and leaves X's vertex and processed entry in place;
\* both are detached in the step of the next end or abort transition, and in
\* no earlier step
C16_DeferredRemoval ==
    /\ [](\A t \in toRemove : /\ wfState \in {"executing", "paused"}
                               /\ t \in Range(dagV)
                               /\ tstate[t] = "removed")
    /\ [][/\ \A t \in Range(dagV) :
               (wfState \in {"executing", "paused"} /\ t \notin toRemove /\ t \in toRemove')
                   => tstate'[t] = "removed" /\ dagV' = dagV /\ processed' = processed
          /\ \A t \in toRemove :
               IF EndsOrAborts
               THEN t \notin Range(dagV') /\ t \notin processed' /\ t \notin toRemove'
               ELSE /\ t \in Range(dagV') /\ t \in toRemove'
                    /\ t \in processed => t \in processed'
          /\ \A t \in Range(dagV) :
               (wfState \in {"executing", "paused"} /\ t \notin Range(dagV'))
                   => EndsOrAborts /\ t \in toRemove]_vars
\* a task was removed while its run was under way: it is in state removed
\* and still a vertex with its processed entry
C16_Witness ==
    \E t \in toRemove : /\ tstate[t] = "removed" /\ pc[t] = "work"
                        /\ t \in Range(dagV) /\ t \in processed

\* C17: when two iterators consume the same workflow, both started before
\* the tasks were launched, only try() raises, and when the run has come to
\* rest every iterator that was started has completed or raised
C17_ConcurrentIterators ==
    (wl.kinds[2] # "none" /\ \A i \in Iters : ~iters[i].late) =>
        /\ \A i \in Iters : iters[i].pc = "threw" => iters[i].kind = "try"
        /\ (wfState # "paused" /\ ~CanProgress) =>
               \A i \in Iters : iters[i].pc \in {"new", "done", "threw"}

\* stream() with the workload's filters is to yield the task it received as g
StreamWants(g) ==
    /\ "*" \in wl.flt.states \/ g.state \in wl.flt.states
    /\ wl.flt.onlyTerminal => g.term
    /\ g.task \in wl.flt.accept

\* C18: stream(filters) yields a task it receives from default iteration
\* exactly when the task's state is in filters.states, the task has no
\* dependents or onlyTerminal is false, and filters.filter is true of it
C18_StreamFilters ==
    \A i \in Iters : iters[i].kind = "stream" =>
        \A g \in iters[i].got :
            (\E o \in iters[i].out : o.task = g.task /\ o.state = g.state) <=> StreamWants(g)

\* C19: every value try() yields is the result of a task in state succeeded
C19_TryYieldsSucceeded ==
    \A i \in Iters : iters[i].kind = "try" =>
        \A o \in iters[i].out : o.state = "succeeded"

\* C20: pause() on a paused workflow, resume() on an executing workflow and
\* abort() on an aborted workflow return normally
C20_IdempotentControls == ctl[1] # "none" => ctl[2] = "returned"

\* C21: Task.cancel() on a task that is not pending (running, failed,
\* succeeded, cancelled or removed) returns normally, leaves the state
\* unchanged and emits no event
C21_CancelIsNoOp ==
    (fsm.def = "task" /\ fsm.last = "cancel"
        /\ fsm.was \in {"running", "failed", "succeeded", "cancelled", "removed"}) =>
        /\ fsm.res # "invalid"
        /\ fsm.state = fsm.was
        /\ fsm.log = <<>>

\* C28: an invoke whose transition does not allow the current state throws
\* the invalid-transition error, leaves the state as it was and emits no event
C28_InvalidInvoke ==
    (fsm.n > 0 /\ fsm.was \notin FsmFrom(fsm.def, fsm.last)) =>
        /\ fsm.res = "invalid"
        /\ fsm.state = fsm.was
        /\ fsm.log = <<>>
\* a paused workflow machine was asked to begin, and a running task machine
\* was asked to retry
C28_Witness ==
    /\ fsm.res = "invalid"
    /\ \/ fsm.def = "workflow" /\ fsm.was = "paused" /\ fsm.last = "begin"
       \/ fsm.def = "task" /\ fsm.was = "running" /\ fsm.last = "retry"

\* no vertex reaches itself along the edges that name vertices
IsAcyclic(V, E) ==
    \A v \in Range(V) : v \notin Range(E[v]) /\ v \notin Successors(V, E, v)
\* the index of x in the sequence o
Pos(o, x) == CHOOSE i \in 1..Len(o) : o[i] = x
\* the vertices a vertex depends on
DepsIn(V, E, v) == {d \in Range(V) : d \in Range(E[v])}

RECURSIVE Depth(_, _, _)
\* the dependency depth of a vertex of an acyclic graph: its topological layer
Depth(V, E, v) ==
    LET ds == {Depth(V, E, d) : d \in DepsIn(V, E, v)}
    IN  IF ds = {} THEN 0 ELSE 1 + CHOOSE m \in ds : \A k \in ds : k <= m

\* C23: with equal priorities, the sort lists the vertices of one topological
\* layer in insertion order, for every insertion order
C23_LayersInInsertionOrder ==
    (IsAcyclic(dagV, dagE) /\ \A u, v \in Range(dagV) : wl.prio[u] = wl.prio[v]) =>
        LET o == topoSort(dagV, dagE, wl.prio)
        IN  \A u, v \in Range(dagV) :
                (Depth(dagV, dagE, u) = Depth(dagV, dagE, v) /\ Pos(dagV, u) < Pos(dagV, v))
                    => Pos(o, u) < Pos(o, v)

\* the vertices no vertex depends on
NoDependents(V, E) == {v \in Range(V) : \A u \in Range(V) : v \notin Range(E[u])}

\* C24: among the vertices without dependents, one of higher priority comes
\* before every one of lower priority
C24_PriorityAmongTerminals ==
    LET o == topoSort(dagV, dagE, wl.prio)
    IN  \A u, v \in NoDependents(dagV, dagE) :
            wl.prio[u] > wl.prio[v] => Pos(o, u) < Pos(o, v)
\* the terminal vertex of higher priority was added last and has a dependency
C24_Witness ==
    /\ dagV = <<"a", "b", "c">>
    /\ dagE["c"] = <<"a">> /\ dagE["a"] = <<>> /\ dagE["b"] = <<>>
    /\ wl.prio["c"] = 1 /\ wl.prio["b"] = 0 /\ wl.prio["a"] = 0
    /\ topoSort(dagV, dagE, wl.prio) = <<"a", "c", "b">>

\* C25: once remove(id) has removed a vertex from an idle workflow, no
\* remaining vertex has id in its outgoing set
C25_RemoveScrubsEdges ==
    [][wfState = "idle" =>
          \A id \in Range(dagV) :
              id \notin Range(dagV') => \A v \in Range(dagV') : id \notin Range(dagE'[v])]_vars

\* C26: addEdge(from, to) throws when from = to or from is reachable from
\* to, and then the vertices, the edge sets and the sort are unchanged; in
\* every other case with both vertices present the edge is added
C26_AddEdge ==
    [][(edits' = edits + 1 /\ ctl'[1] = "addEdge") =>
          LET from == ctl'[3]
              to == ctl'[4]
          IN  IF from = to \/ (to \in Range(dagV) /\ from \in Successors(dagV, dagE, to))
              THEN /\ ctl'[2] = "threw"
                   /\ dagV' = dagV /\ dagE' = dagE
                   /\ topoSort(dagV', dagE', wl'.prio) = topoSort(dagV, dagE, wl.prio)
              ELSE (from \in Range(dagV) /\ to \in Range(dagV)) =>
                       /\ ctl'[2] = "returned"
                       /\ to \in Range(dagE'[from])
                       /\ dagV' = dagV
                       /\ \A v \in TaskIds :
                              Range(dagE'[v]) = Range(dagE[v]) \cup (IF v = from THEN {to} ELSE {})
      ]_vars
\* in the chain a <- b <- c, the edge from a to c was refused: a is reached
\* from c through b
C26_Witness ==
    /\ wl.name = "chain"
    /\ ctl = <<"addEdge", "threw", "a", "c">>
    /\ dagE = wl.rel

\* C27: add with an id that exists throws and leaves the workflow as it was:
\* the size, the sort, the existing task and its state, and the machine
\* registered under the id in the task manager
C27_DuplicateAdd ==
    [][(edits' = edits + 1 /\ ctl'[1] = "add" /\ ctl'[3] \in Range(dagV)) =>
          /\ ctl'[2] = "threw"
          /\ dagV' = dagV /\ dagE' = dagE
          /\ topoSort(dagV', dagE', wl'.prio) = topoSort(dagV, dagE, wl.prio)
          /\ tstate' = tstate
          /\ idMap' = idMap
      ]_vars

\* the transitions of Workflow.stateDef as pairs <<from, to>>
WorkflowSteps ==
    {<<"idle", "executing">>, <<"executing", "paused">>, <<"paused", "executing">>,
     <<"executing", "done">>, <<"paused", "done">>,
     <<"executing", "aborted">>, <<"paused", "aborted">>}

\* C29: the workflow state changes only along the declared transitions, done
\* and aborted are never left, and begin (with the scheduler pass it opens)
\* is performed at most once: only in the step that leaves idle.  An iterator
\* started on an idle workflow without tasks performs begin and end in one
\* synchronous run, idle -> executing -> done.
C29_WorkflowLifecycle ==
    [][/\ wfState' # wfState =>
              \/ <<wfState, wfState'>> \in WorkflowSteps
              \/ /\ <<wfState, wfState'>> = <<"idle", "done">>
                 /\ procPc = "idle" /\ procPc' = "begun"
                 /\ Len(getOrdered) = 0
       /\ procPc' # procPc =>
              <<procPc, procPc'>> \in {<<"idle", "begun">>, <<"begun", "done">>}
       /\ (procPc = "idle" /\ procPc' = "begun") <=> (wfState = "idle" /\ wfState' # "idle")
      ]_vars
\* both iterators of a workload were started and the workflow is done
C29_Witness ==
    /\ \A i \in Iters : iters[i].kind # "none" /\ iters[i].pc # "new"
    /\ wfState = "done"
    /\ procPc = "done"

\* C30: a caller whose acquire() was suspended obtains its permit before
\* every caller suspended after it, and a caller that calls acquire() obtains
\* no permit at once while an earlier caller is still waiting in the queue
C30_FifoPermits ==
    [][\A c \in SemClients :
          (sem.cl[c] # "holding" /\ sem'.cl[c] = "holding") =>
              IF sem.cl[c] = "out"
              THEN sem.queue = <<>>
              ELSE c = Head(sem.woken \o sem.queue)]_vars

\* the four events of an invoke of transition tr from state from, in order
FsmEvents(def, tr, from) ==
    <<<<tr, "before">>, <<from, "leave">>, <<FsmTo(def, tr), "enter">>, <<tr, "after">>>>

\* C40: whenever an invoke raises, because the transition is invalid or
\* because a before, leave, enter or after handler threw, the state is the
\* state before the call and nothing was emitted after the throwing handler
C40_InvokeAtomic ==
    fsm.res \in {"invalid", "threw"} =>
        /\ fsm.state = fsm.was
        /\ fsm.res = "invalid" => fsm.log = <<>>
        /\ fsm.res = "threw" =>
               /\ Len(fsm.log) \in 1..4
               /\ \A k \in 1..Len(fsm.log) :
                      fsm.log[k].event = FsmEvents(fsm.def, fsm.last, fsm.was)[k]

\* the tasks inside the callback of their withLock, the permit taken: from
\* acquire's increment to the release in finally
InsideLock == {t \in TaskIds : pc[t] \in {"locked", "deps", "gateWait", "ready", "work", "backoff"}}

\* C31: the workflow's active value is the number of tasks inside their
\* semaphore-guarded section, every exit of the section gives its permit
\* back, and once every withLock call has settled active is 0
C31_PermitsHeld ==
    /\ active = Cardinality(InsideLock)
    /\ (\A t \in TaskIds : pc[t] \in {"none", "new", "settled"}) => active = 0
\* every guarded section has been left, one with its task succeeded, one
\* failed and one cancelled
C31_Witness ==
    /\ procPc = "done"
    /\ \A t \in Range(dagV) : pc[t] = "settled"
    /\ \E t \in Range(dagV) : tstate[t] = "succeeded"
    /\ \E t \in Range(dagV) : tstate[t] = "failed"
    /\ \E t \in Range(dagV) : tstate[t] = "cancelled"
    /\ active = 0

\* C32: clear of a named event removes the subscribers of that event only:
\* the subscribers of the other events and the wildcard subscribers stay
C32_ClearNamedOnly ==
    [][(sig'.n = sig.n + 1 /\ sig'.last = "clear" /\ sig'.arg # "*") =>
          /\ sig'.hs[sig'.arg] = <<>>
          /\ \A e \in SigEvents \ {sig'.arg} : sig'.hs[e] = sig.hs[e]
          /\ sig'.wc = sig.wc]_vars

\* C33: once a stream is cancelled, an emit of one of its events does not
\* invoke its handler, enqueues nothing into it and raises no error
C33_CancelUnsubscribes ==
    [][(sig'.n = sig.n + 1 /\ sig'.last = "emit") =>
          \A i \in SigStreams :
              sig.st[i].state = "cancelled" =>
                  /\ <<"s", i>> \notin Range(sig'.calls)
                  /\ sig'.st[i].buf = <<>>
                  /\ sig'.res # "threw"]_vars

\* C34: a stream holds, read and unread together, every value emitted on
\* its events since it was made, once each and in emission order (for a
\* stream whose subscription no clear() has removed)
C34_StreamDelivers ==
    \A i \in SigStreams :
        (sig.st[i].state = "open" /\ ~sig.st[i].cut) =>
            sig.st[i].got \o sig.st[i].buf = sig.st[i].due

\* C35: a task removed before an attempt starts fails that attempt with the
\* removed-before-execution error, and its execute rejects with that error;
\* the task stays removed and its work function is not invoked again
C35_RemovedBeforeExecution ==
    /\ [](\A t \in TaskIds :
            error[t] = RemovedBeforeExecution =>
                /\ pc[t] = "settled"
                /\ outcome[t] = "error"
                /\ tstate[t] = "removed"
                /\ rej[t] = RemovedBeforeExecution)
    /\ [][\A t \in TaskIds :
            error[t] = RemovedBeforeExecution =>
                starts'[t] = starts[t] /\ tstate'[t] = "removed"]_vars

\* C36: a timer that elapses while the attempt it was armed for is running
\* fails that attempt with the timed-out error, and the failure is retried
\* like any other; a timer armed for an earlier attempt, or for an attempt
\* that has ended, changes neither the state of the task nor its attempt
C36_TimeoutPerAttempt ==
    [][Len(tk'.fired) = Len(tk.fired) + 1 =>
          IF tk.pc = "work" /\ tk'.fired[Len(tk'.fired)] = tk.attempts
          THEN /\ tk'.error = TimedOut
               /\ tk'.state = IF tk.attempts = tk.retryLimit THEN "failed" ELSE "pending"
          ELSE /\ tk'.state = tk.state
               /\ tk'.pc = tk.pc
               /\ tk'.error = tk.error]_vars

\* C37: when the workflow is done every task in the DAG is succeeded,
\* cancelled, removed or failed with its retries used up, and no work
\* function starts once the workflow is done
C37_DoneMeansSettled ==
    /\ [](wfState = "done" =>
            \A t \in Range(dagV) :
                \/ tstate[t] \in {"succeeded", "cancelled", "removed"}
                \/ tstate[t] = "failed" /\ attempts[t] >= wl.retry[t])
    /\ [][wfState = "done" => starts' = starts]_vars

\* C38: while the workflow is aborted no task performs the start transition
C38_NoStartAfterAbort ==
    [][wfState = "aborted" =>
          \A t \in TaskIds :
              /\ starts'[t] = starts[t]
              /\ tstate[t] # "running" => tstate'[t] # "running"]_vars

\* C39: getOrdered leaves every vertex with the set of dependency ids it had,
\* the ids of absent vertices included, so that in every later sort a task
\* comes after each task it was declared to rely on
C39_SortKeepsEdges ==
    /\ [][(edits' = edits + 1 /\ ctl'[1] = "getOrdered") =>
            \A v \in Range(dagV) : Range(dagE'[v]) = Range(dagE[v])]_vars
    /\ [](\A v \in Range(dagV) :
            \A d \in Range(wl.rel[v]) \cap Range(dagV) :
                v # d => Pos(getOrdered, d) < Pos(getOrdered, v))

====
